---- MODULE Spec2Model ----
(***************************************************************************)
(* A model of ed_join (lebensterben/ed_join): the positional q-gram        *)
(* extractor, the inverted index builder, the prefix-length solver, the    *)
(* candidate generator, the verifier and the join driver.                  *)
(*                                                                         *)
(* Records are sequences of bytes.  A token is a sequence of q bytes, a    *)
(* positional q-gram the record [token, loc].  A call that panics in the   *)
(* Rust code (an unwrap, an expect, an index or a slice out of range) is   *)
(* modelled by a result of kind "panic"; a panic in a worker ends the run. *)
(***************************************************************************)
EXTENDS Integers, Sequences, FiniteSets, TLC

\* ------------------------------------------------------------------ bounds
\* The longest record, in bytes.
MaxLen == 3
\* The largest number of records of a collection.
MaxRecs == 3
\* The largest number of bytes of a collection (all its records together).
MaxBytes == 4
\* The largest q and tau a run is configured with.
MaxQ == 2
MaxTau == 2
\* The two-collection runs draw both collections from a smaller family.
MaxRecsTwo == 2
MaxBytesTwo == 3

\* The bytes records are made of: 'a' and 'b'; the strings handed to
\* PosQGramArray::from may also hold U+00E9, two bytes in UTF-8.
AsciiBytes == {97, 98}
EAcute == <<195, 169>>

\* ----------------------------------------------------------------- helpers
Min(a, b) == IF a <= b THEN a ELSE b

Abs(a) == IF a >= 0 THEN a ELSE 0 - a

Range(s) == {s[i] : i \in 1..Len(s)}

RemoveAt(s, i) == SubSeq(s, 1, i - 1) \o SubSeq(s, i + 1, Len(s))

RECURSIVE Concat(_)
Concat(ss) == IF ss = <<>> THEN <<>> ELSE Head(ss) \o Concat(Tail(ss))

RECURSIVE SumSeq(_)
SumSeq(s) == IF s = <<>> THEN 0 ELSE Head(s) + SumSeq(Tail(s))

\* a.as_bytes() < b.as_bytes(): the lexicographic order of byte slices.
RECURSIVE BytesLess(_, _)
BytesLess(a, b) ==
    IF b = <<>> THEN FALSE
    ELSE IF a = <<>> THEN TRUE
    ELSE IF Head(a) /= Head(b) THEN Head(a) < Head(b)
    ELSE BytesLess(Tail(a), Tail(b))

\* std::str::from_utf8 on a byte window, for one- and two-byte sequences.
RECURSIVE from_utf8_ok(_)
from_utf8_ok(w) ==
    IF w = <<>> THEN TRUE
    ELSE IF Head(w) < 128 THEN from_utf8_ok(Tail(w))
    ELSE IF Head(w) >= 194 /\ Head(w) <= 223
         THEN /\ Len(w) >= 2
              /\ w[2] >= 128 /\ w[2] <= 191
              /\ from_utf8_ok(Tail(Tail(w)))
    ELSE FALSE

\* s.chars(): the scalar values of a valid string, a two-byte sequence
\* becoming the one value 64 * (lead - 192) + (cont - 128).
RECURSIVE chars(_)
chars(s) ==
    IF s = <<>> THEN <<>>
    ELSE IF Head(s) < 128 THEN <<Head(s)>> \o chars(Tail(s))
    ELSE <<64 * (Head(s) - 192) + (s[2] - 128)>> \o chars(Tail(Tail(s)))

\* ------------------------------------------------------- qgram.rs: q-grams
PosQGram(t, l) == [token |-> t, loc |-> l]

\* par_windows(q): the overlapping byte windows of s, in order.
Windows(s, q) ==
    IF Len(s) < q THEN <<>>
    ELSE [k \in 1..(Len(s) - q + 1) |-> SubSeq(s, k, k + q - 1)]

\* PosQGramArray::from panics when a window is not valid UTF-8.
PosQGramArrayFromPanics(s, q) ==
    \E k \in 1..Len(Windows(s, q)) : ~from_utf8_ok(Windows(s, q)[k])

\* PosQGramArray::from: the windows with their zero-based positions.  The
\* closing sort by loc acts on distinct keys and changes nothing.
PosQGramArrayFrom(s, q) ==
    [k \in 1..Len(Windows(s, q)) |-> PosQGram(Windows(s, q)[k], k - 1)]

\* The comparator of sort_by_frequency and PosQGram::cmp: by the count of
\* the index, then by the bytes of the token.  inv maps a token to
\* [list, count].
FreqLess(a, b, inv) ==
    \/ inv[a.token].count < inv[b.token].count
    \/ /\ inv[a.token].count = inv[b.token].count
       /\ BytesLess(a.token, b.token)

\* sort_by_frequency is an unstable sort: every arrangement of the array in
\* which no element is followed by one the comparator puts before it is an
\* outcome; elements with the same token compare equal.
RECURSIVE sort_by_frequency(_, _)
sort_by_frequency(arr, inv) ==
    IF arr = <<>> THEN {<<>>}
    ELSE UNION {
        {<<arr[i]>> \o rest : rest \in sort_by_frequency(RemoveAt(arr, i), inv)} :
            i \in {k \in 1..Len(arr) :
                      \A j \in 1..Len(arr) : ~FreqLess(arr[j], arr[k], inv)}}

\* A sort by loc (sort_by_location, par_sort_unstable_by_key(loc),
\* par_sort_by_key(loc)).  Arrays with two elements at one loc have several
\* outcomes under the unstable sorts.
RECURSIVE sort_by_location(_)
sort_by_location(arr) ==
    IF arr = <<>> THEN {<<>>}
    ELSE UNION {
        {<<arr[i]>> \o rest : rest \in sort_by_location(RemoveAt(arr, i))} :
            i \in {k \in 1..Len(arr) :
                      \A j \in 1..Len(arr) : arr[j].loc >= arr[k].loc}}

\* A stable sort by loc (par_sort_by_key): insertion from the right keeps
\* the order of elements at the same loc.
RECURSIVE InsertByLoc(_, _)
InsertByLoc(e, sorted) ==
    IF sorted = <<>> THEN <<e>>
    ELSE IF Head(sorted).loc <= e.loc
         THEN <<Head(sorted)>> \o InsertByLoc(e, Tail(sorted))
    ELSE <<e>> \o sorted

RECURSIVE StableSortByLoc(_)
StableSortByLoc(arr) ==
    IF arr = <<>> THEN <<>>
    ELSE InsertByLoc(arr[Len(arr)], StableSortByLoc(SubSeq(arr, 1, Len(arr) - 1)))

\* The element at a zero-based index, as the code indexes its vectors.
At(s, i) == s[i + 1]

\* ------------------------------------------- matching.rs: prefix length
\* The sweep of min_edit_errors.  It runs over the caller's slice in the
\* order given: the copy sorted by loc (array_clone) is never read.
RECURSIVE min_edit_errors_sweep(_, _, _, _)
min_edit_errors_sweep(arr, q, cnt, loc) ==
    IF arr = <<>> THEN cnt
    ELSE IF Head(arr).loc > loc
         THEN min_edit_errors_sweep(Tail(arr), q, cnt + 1, Head(arr).loc + q - 1)
    ELSE min_edit_errors_sweep(Tail(arr), q, cnt, loc)

min_edit_errors(qgram_array, q) == min_edit_errors_sweep(qgram_array, q, 0, 0)

\* The binary search with its two branches exchanged.
RECURSIVE calc_prefix_len_search_flipped(_, _, _, _, _)
calc_prefix_len_search_flipped(arr, q, tau, left, right) ==
    IF left < right
    THEN LET mid == (left + right) \div 2
             err == min_edit_errors(SubSeq(arr, 1, Min(mid, Len(arr))), q)
         IN  IF err <= tau
             THEN calc_prefix_len_search_flipped(arr, q, tau, left, mid)
             ELSE calc_prefix_len_search_flipped(arr, q, tau, mid + 1, right)
    ELSE left

\* The binary search of calc_prefix_len.
RECURSIVE calc_prefix_len_search(_, _, _, _, _)
calc_prefix_len_search(arr, q, tau, left, right) ==
    IF left < right
    THEN LET mid == (left + right) \div 2
             err == min_edit_errors(SubSeq(arr, 1, Min(mid, Len(arr))), q)
         IN  IF err <= tau
             THEN calc_prefix_len_search(arr, q, tau, mid + 1, right)
             ELSE calc_prefix_len_search(arr, q, tau, left, mid)
    ELSE left

\* The search result returned without the closing min with the length.
calc_prefix_len_unclamped(qgram_array, q, tau) ==
    calc_prefix_len_search(qgram_array, q, tau, tau + 1, q * tau + 1)

calc_prefix_len(qgram_array, q, tau) ==
    Min(calc_prefix_len_search(qgram_array, q, tau, tau + 1, q * tau + 1),
        Len(qgram_array))

\* ------------------------------------------ verification.rs: the filters
\* The edit_distance crate: the Levenshtein distance of the two strings'
\* chars, one row of the table at a time.
RECURSIVE edit_distance_row(_, _, _, _, _)
edit_distance_row(c, b, prev, cur, j) ==
    IF j > Len(b) THEN cur
    ELSE LET sub == prev[j] + (IF c = b[j] THEN 0 ELSE 1)
             del == prev[j + 1] + 1
             ins == cur[j] + 1
         IN  edit_distance_row(c, b, prev, Append(cur, Min(sub, Min(del, ins))), j + 1)

RECURSIVE edit_distance_rows(_, _, _, _)
edit_distance_rows(a, b, prev, i) ==
    IF i > Len(a) THEN prev[Len(b) + 1]
    ELSE edit_distance_rows(a, b, edit_distance_row(a[i], b, prev, <<i>>, 1), i + 1)

edit_distance(s, t) ==
    edit_distance_rows(chars(s), chars(t), [j \in 1..(Len(chars(t)) + 1) |-> j - 1], 1)

\* The closure `comparator` of compare_qgrams: whether x[i] is pushed to the
\* loose mismatches (i, j zero-based).
IsLooseMismatch(x, y, i, j, tau) ==
    \/ (i >= 1 /\ At(x, i).token /= At(x, i - 1).token)
    \/ (j >= 1 /\ At(x, i).token /= At(y, j - 1).token)
    \/ (j >= 1 /\ Abs(At(x, i).loc - At(y, j - 1).loc) > tau)

PushLoose(x, y, i, j, tau, loose) ==
    IF IsLooseMismatch(x, y, i, j, tau) THEN Append(loose, At(x, i)) ELSE loose

\* The two loops of compare_qgrams (Algorithm 8), before the closing sort.
RECURSIVE compare_qgrams_loop(_, _, _, _, _, _, _, _)
compare_qgrams_loop(x, y, inv, tau, i, j, epsilon, loose) ==
    IF i < Len(x) /\ j < Len(y)
    THEN IF At(x, i).token = At(y, j).token
         THEN IF Abs(At(x, i).loc - At(y, j).loc) <= tau
              THEN compare_qgrams_loop(x, y, inv, tau, i + 1, j + 1, epsilon, loose)
              ELSE IF At(x, i).loc < At(y, j).loc
              THEN compare_qgrams_loop(x, y, inv, tau, i + 1, j, epsilon + 1,
                                       PushLoose(x, y, i, j, tau, loose))
              ELSE compare_qgrams_loop(x, y, inv, tau, i, j + 1, epsilon, loose)
         ELSE IF FreqLess(At(x, i), At(y, j), inv)
              THEN compare_qgrams_loop(x, y, inv, tau, i + 1, j, epsilon + 1,
                                       PushLoose(x, y, i, j, tau, loose))
              ELSE compare_qgrams_loop(x, y, inv, tau, i, j + 1, epsilon, loose)
    ELSE IF i < Len(x)
    THEN compare_qgrams_loop(x, y, inv, tau, i + 1, j, epsilon + 1,
                             PushLoose(x, y, i, j, tau, loose))
    ELSE [loose_mismatch |-> loose, epsilon |-> epsilon]

\* compare_qgrams: the outcomes of the traversal followed by
\* loose_mismatch.sort_by_location().
compare_qgrams(x, y, inv, tau) ==
    LET r == compare_qgrams_loop(x, y, inv, tau, 0, 0, 0, <<>>)
    IN  {[loose_mismatch |-> l, epsilon |-> r.epsilon] :
            l \in sort_by_location(r.loose_mismatch)}

Reverse(s) == [k \in 1..Len(s) |-> s[Len(s) + 1 - k]]

\* The sweep with the count pushed before it is raised.
RECURSIVE sum_right_errors_sweep_stale(_, _, _, _, _)
sum_right_errors_sweep_stale(arr, q, cnt, loc, suffix_sum) ==
    IF arr = <<>> THEN suffix_sum
    ELSE IF Head(arr).loc < loc
         THEN sum_right_errors_sweep_stale(
                  Tail(arr), q, cnt + 1,
                  IF Head(arr).loc + 1 >= q THEN Head(arr).loc + 1 - q ELSE 0,
                  Append(suffix_sum, <<Head(arr).loc, cnt>>))
    ELSE sum_right_errors_sweep_stale(Tail(arr), q, cnt, loc, suffix_sum)

\* The sweep of sum_right_errors over the reversed array.
RECURSIVE sum_right_errors_sweep(_, _, _, _, _)
sum_right_errors_sweep(arr, q, cnt, loc, suffix_sum) ==
    IF arr = <<>> THEN suffix_sum
    ELSE IF Head(arr).loc < loc
         THEN sum_right_errors_sweep(
                  Tail(arr), q, cnt + 1,
                  IF Head(arr).loc + 1 >= q THEN Head(arr).loc + 1 - q ELSE 0,
                  Append(suffix_sum, <<Head(arr).loc, cnt + 1>>))
    ELSE sum_right_errors_sweep(Tail(arr), q, cnt, loc, suffix_sum)

\* sum_right_errors: None for an empty array, else the suffix sums; the
\* array is reversed twice and so handed back as it came.
sum_right_errors(qgram_array, q) ==
    IF Len(qgram_array) = 0
    THEN [kind |-> "none", suffix_sum |-> <<>>]
    ELSE [kind |-> "some",
          suffix_sum |-> sum_right_errors_sweep(
              Reverse(qgram_array), q, 0, Reverse(qgram_array)[1].loc + 1, <<>>)]

\* frequency_histogram: how often each char occurs in s.
frequency_histogram(s) ==
    [c \in Range(chars(s)) |-> Cardinality({k \in 1..Len(chars(s)) : chars(s)[k] = c})]

\* s.is_char_boundary(idx), for idx <= |s|.
is_char_boundary(s, idx) ==
    idx = 0 \/ idx = Len(s) \/ ~(At(s, idx) >= 128 /\ At(s, idx) <= 191)

\* &s[lo..hi] panics when the range is not inside s or splits a char.
SlicePanics(s, lo, hi) ==
    lo > hi \/ hi > Len(s) \/ ~is_char_boundary(s, lo) \/ ~is_char_boundary(s, hi)

l1_distance_panics(s, t, lo, hi) == SlicePanics(s, lo, hi) \/ SlicePanics(t, lo, hi)

\* The histogram's count of a char, 0 for a char it does not hold.
HistGet(h, k) == IF k \in DOMAIN h THEN h[k] ELSE 0

\* The sum over the keys of |v_s - v_t|.
RECURSIVE l1_sum(_, _, _)
l1_sum(keys, h_s, h_t) ==
    IF keys = {} THEN 0
    ELSE LET k == CHOOSE c \in keys : TRUE
         IN  Abs(HistGet(h_s, k) - HistGet(h_t, k)) + l1_sum(keys \ {k}, h_s, h_t)

\* l1_distance (Algorithm 6) of the windows s[lo..hi] and t[lo..hi].
l1_distance(s, t, lo, hi) ==
    LET h_s == frequency_histogram(SubSeq(s, lo + 1, hi))
        h_t == frequency_histogram(SubSeq(t, lo + 1, hi))
    IN  l1_sum(DOMAIN h_s \cup DOMAIN h_t, h_s, h_t)

\* The lookup that takes the last entry in array order with loc >= bound:
\* the entry of the smallest qualifying loc.
RECURSIVE find_smallest_right_error(_, _)
find_smallest_right_error(suffix_sum, bound) ==
    IF suffix_sum = <<>> THEN 0
    ELSE IF suffix_sum[Len(suffix_sum)][1] >= bound
         THEN suffix_sum[Len(suffix_sum)][2]
    ELSE find_smallest_right_error(SubSeq(suffix_sum, 1, Len(suffix_sum) - 1), bound)

\* find_first(|e| e.0 >= bound) on the suffix sums, in array order; (0, 0)
\* when there is none.
RECURSIVE find_first_right_error(_, _)
find_first_right_error(suffix_sum, bound) ==
    IF suffix_sum = <<>> THEN 0
    ELSE IF Head(suffix_sum)[1] >= bound THEN Head(suffix_sum)[2]
    ELSE find_first_right_error(Tail(suffix_sum), bound)

\* The closure `epsi` of content_filter (ii, jj zero-based).
epsi_panics(s, t, mismatch, q, ii, jj) ==
    l1_distance_panics(s, t, At(mismatch, jj).loc, At(mismatch, ii - 1).loc + q - 1)

epsi(s, t, mismatch, suffix_sum, q, ii, jj) ==
    l1_distance(s, t, At(mismatch, jj).loc, At(mismatch, ii - 1).loc + q - 1) \div 2
        + find_first_right_error(suffix_sum, At(mismatch, ii - 1).loc + q)

\* The loop of content_filter (Algorithm 5) and the evaluation after it.
RECURSIVE content_filter_loop(_, _, _, _, _, _, _, _)
content_filter_loop(from, to, mismatch, suffix_sum, q, tau, i, j) ==
    IF i < Len(mismatch)
    THEN IF At(mismatch, i).loc - At(mismatch, i - 1).loc > 1
         THEN IF epsi_panics(from, to, mismatch, q, i, j)
              THEN [kind |-> "panic", v |-> 0]
              ELSE IF epsi(from, to, mismatch, suffix_sum, q, i, j) > tau
              THEN [kind |-> "some", v |-> 2 * tau + 1]
              ELSE content_filter_loop(from, to, mismatch, suffix_sum, q, tau, i + 1, i)
         ELSE content_filter_loop(from, to, mismatch, suffix_sum, q, tau, i + 1, j)
    ELSE IF epsi_panics(from, to, mismatch, q, i, j)
         THEN [kind |-> "panic", v |-> 0]
         ELSE [kind |-> "some", v |-> epsi(from, to, mismatch, suffix_sum, q, i, j)]

content_filter(from, to, mismatch, suffix_sum, q, tau) ==
    IF Len(mismatch) >= 2
    THEN content_filter_loop(from, to, mismatch, suffix_sum, q, tau, 1, 0)
    ELSE [kind |-> "none", v |-> 0]

\* The exact verification that closes every accepting branch of verify.
ExactVerification(line_content, candidate_content, tau) ==
    IF edit_distance(line_content, candidate_content) <= tau
    THEN [kind |-> "some", ed |-> edit_distance(line_content, candidate_content)]
    ELSE [kind |-> "none", ed |-> 0]

\* The slack compare_qgrams is called with by verify.
CompareSlack(q, tau) == q

\* verify (Algorithm 7) once x and y are in frequency order and the
\* mismatches cm = (loose_mismatch, epsilon_1) are known.
verify_filters(cm, line_content, candidate_content, q, tau) ==
    IF cm.epsilon <= q * tau
    THEN LET loose_mismatch == StableSortByLoc(cm.loose_mismatch)
             epsilon_2 == min_edit_errors(loose_mismatch, q)
         IN  IF epsilon_2 <= tau
             THEN LET right_error == sum_right_errors(loose_mismatch, q)
                  IN  IF right_error.kind = "some"
                      THEN LET epsilon_3 == content_filter(
                                   line_content, candidate_content, loose_mismatch,
                                   right_error.suffix_sum, q, tau)
                           IN  IF epsilon_3.kind = "panic"
                               THEN [kind |-> "panic", ed |-> 0]
                               ELSE IF epsilon_3.kind = "some"
                               THEN IF epsilon_3.v <= tau
                                    THEN ExactVerification(line_content,
                                                           candidate_content, tau)
                                    ELSE [kind |-> "none", ed |-> 0]
                               ELSE ExactVerification(line_content,
                                                      candidate_content, tau)
                      ELSE ExactVerification(line_content, candidate_content, tau)
             ELSE [kind |-> "none", ed |-> 0]
    ELSE [kind |-> "none", ed |-> 0]

\* verify: the outcomes over the orders the two calls of sort_by_frequency
\* and the sort of compare_qgrams may produce.  x is the caller's array, y
\* the candidate's array in location order.  An outcome is of kind "some"
\* (the pair matches, with its distance), "none" or "panic".
verify(x, line_content, y, candidate_content, inverted, q, tau) ==
    UNION { UNION { { verify_filters(cm, line_content, candidate_content, q, tau) :
                        cm \in compare_qgrams(xs, ys, inverted, CompareSlack(q, tau)) } :
                    ys \in sort_by_frequency(y, inverted) } :
            xs \in sort_by_frequency(x, inverted) }

\* ---------------------------------------- qgram.rs: the inverted index
\* The record with the zero-based line number id.
Line(doc, id) == doc[id + 1]

LineIds(doc) == 0..(Len(doc) - 1)

\* The places (line_id, pos) of the q-grams of a document.
Places(doc, q) ==
    UNION {{<<id, pos>> : pos \in 0..(Len(Line(doc, id)) - q)} : id \in LineIds(doc)}

\* The q-gram at a place.
TokenAt(doc, q, place) == SubSeq(Line(doc, place[1]), place[2] + 1, place[2] + q)

DocTokens(doc, q) == {TokenAt(doc, q, place) : place \in Places(doc, q)}

Occurrences(doc, q, token) == {place \in Places(doc, q) : TokenAt(doc, q, place) = token}

\* A line of which some window is not valid UTF-8 stops the index builder
\* (expect("Error when parsing ngrams")).
DocPanics(doc, q) == \E id \in LineIds(doc) : PosQGramArrayFromPanics(Line(doc, id), q)

\* list_y.par_sort_unstable_by_key(|(id_y, _loc_y)| *id_y): the key is the
\* line number alone, so postings of one line may come out in any order.
RECURSIVE sort_by_id(_)
sort_by_id(list) ==
    IF list = <<>> THEN {<<>>}
    ELSE UNION {
        {<<list[i]>> \o rest : rest \in sort_by_id(RemoveAt(list, i))} :
            i \in {k \in 1..Len(list) : \A j \in 1..Len(list) : list[j][1] >= list[k][1]}}

\* Some sequence holding each element of a set once.
RECURSIVE SetToSeq(_)
SetToSeq(S) ==
    IF S = {} THEN <<>>
    ELSE LET e == CHOOSE x \in S : TRUE IN <<e>> \o SetToSeq(S \ {e})

\* The count generate_inverted_index leaves in the second slot: the
\* occurrences in doc_y, plus those in doc_x when the paths differ.
TokenCount(docx, docy, selfjoin, q, token) ==
    Cardinality(Occurrences(docy, q, token))
        + (IF selfjoin THEN 0 ELSE Cardinality(Occurrences(docx, q, token)))

IndexTokens(docx, docy, selfjoin, q) ==
    DocTokens(docy, q) \cup (IF selfjoin THEN {} ELSE DocTokens(docx, q))

\* The maps with the given entry for each token of T: one map per choice of
\* a posting list for every token.
RECURSIVE IndexChoices(_, _, _, _, _)
IndexChoices(T, docx, docy, selfjoin, q) ==
    IF T = {} THEN {<<>>}
    ELSE LET t == CHOOSE x \in T : TRUE
         IN  {(t :> [list |-> l, count |-> TokenCount(docx, docy, selfjoin, q, t)]) @@ m :
                 l \in sort_by_id(SetToSeq(Occurrences(docy, q, t))),
                 m \in IndexChoices(T \ {t}, docx, docy, selfjoin, q)}

\* generate_inverted_index as one call: the maps it may return, over the
\* orders in which the producers deliver postings and the unstable sort
\* arranges postings of one line.
generate_inverted_index(docx, docy, selfjoin, q) ==
    IndexChoices(IndexTokens(docx, docy, selfjoin, q), docx, docy, selfjoin, q)

generate_inverted_index_panics(docx, docy, selfjoin, q) ==
    DocPanics(docy, q) \/ (~selfjoin /\ DocPanics(docx, q))

\* ------------------------------------------------- matching.rs: ed_join
\* y_vec: the lines the candidates are read from.  ed_join opens doc_x for
\* it (File::open(doc_x)), whatever doc_y is.
YVec(docx, docy) == docx

\* The filter on the line ids: self-join keeps the postings after x_id.
SelfJoinFilter(selfjoin, x_id, y_id) == (selfjoin /\ y_id > x_id) \/ ~selfjoin

\* Whether the closure of the second filter indexes y_vec out of bounds for
\* some posting of the prefix tokens that passed the first filter.
CandidatesPanic(xs, prefix_len, x_id, inverted, selfjoin, y_vec) ==
    \E k \in 1..prefix_len : \E p \in Range(inverted[xs[k].token].list) :
        SelfJoinFilter(selfjoin, x_id, p[1]) /\ p[1] >= Len(y_vec)

\* Ascending order of line ids (par_sort_unstable on integers).
RECURSIVE InsertId(_, _)
InsertId(e, sorted) ==
    IF sorted = <<>> THEN <<e>>
    ELSE IF Head(sorted) <= e THEN <<Head(sorted)>> \o InsertId(e, Tail(sorted))
    ELSE <<e>> \o sorted

RECURSIVE SortIds(_)
SortIds(ids) == IF ids = <<>> THEN <<>> ELSE InsertId(Head(ids), SortIds(Tail(ids)))

\* The candidate list left as it is: an id stays once per posting.
dedup_skipped(ids) == ids

\* Vec::dedup: consecutive repeats removed.
RECURSIVE dedup(_)
dedup(ids) ==
    IF Len(ids) <= 1 THEN ids
    ELSE IF ids[1] = ids[2] THEN dedup(Tail(ids))
    ELSE <<ids[1]>> \o dedup(Tail(ids))

\* `filtered` for one q-gram of the prefix: the line ids of its postings
\* that pass the self-join, the length and the position filter.
Filtered(qgram, x_id, x_content, inverted, selfjoin, y_vec, tau) ==
    LET keep(p) == /\ SelfJoinFilter(selfjoin, x_id, p[1])
                   /\ Abs(Len(Line(y_vec, p[1])) - Len(x_content)) <= tau
                   /\ Abs(qgram.loc - p[2]) <= tau
        kept == SelectSeq(inverted[qgram.token].list, keep)
    IN  dedup(SortIds([k \in 1..Len(kept) |-> kept[k][1]]))

\* `candidates`: the filtered ids of the first prefix_len q-grams, sorted
\* and deduplicated.
Candidates(xs, prefix_len, x_id, x_content, inverted, selfjoin, y_vec, tau) ==
    dedup(SortIds(Concat([k \in 1..prefix_len |->
        Filtered(xs[k], x_id, x_content, inverted, selfjoin, y_vec, tau)])))

\* The results of verifying the candidates in order: `verified` holds one
\* entry (x_id, [(y_id, ed)]) per candidate verify accepts; a panic of one
\* call is a panic of the worker.
RECURSIVE VerifyAll(_, _, _, _, _, _, _, _)
VerifyAll(cands, xs, x_id, x_content, y_vec, inverted, q, tau) ==
    IF cands = <<>> THEN {[kind |-> "ok", verified |-> <<>>]}
    ELSE LET y_id == Head(cands)
             y_content == Line(y_vec, y_id)
         IN  IF PosQGramArrayFromPanics(y_content, q)
             THEN {[kind |-> "panic", verified |-> <<>>]}
             ELSE {IF v.kind = "panic" \/ rest.kind = "panic"
                   THEN [kind |-> "panic", verified |-> <<>>]
                   ELSE IF v.kind = "some"
                   THEN [kind |-> "ok",
                         verified |-> <<<<x_id, <<<<y_id, v.ed>>>>>>>> \o rest.verified]
                   ELSE rest :
                      v \in verify(xs, x_content, PosQGramArrayFrom(y_content, q),
                                   y_content, inverted, q, tau),
                      rest \in VerifyAll(Tail(cands), xs, x_id, x_content, y_vec,
                                         inverted, q, tau)}

\* The closure ed_join runs for one line of doc_x, for one outcome xs of
\* qgram_array_x.sort_by_frequency.
WorkerWith(xs, x_id, x_content, y_vec, inverted, selfjoin, q, tau) ==
    LET prefix_len == calc_prefix_len(xs, q, tau)
    IN  IF CandidatesPanic(xs, prefix_len, x_id, inverted, selfjoin, y_vec)
        THEN {[kind |-> "panic", verified |-> <<>>]}
        ELSE VerifyAll(Candidates(xs, prefix_len, x_id, x_content, inverted,
                                  selfjoin, y_vec, tau),
                       xs, x_id, x_content, y_vec, inverted, q, tau)

\* The outcomes of the closure for line x_id: the vector it sends on the
\* output channel, or a panic.
Worker(x_id, docx, docy, inverted, selfjoin, q, tau) ==
    LET x_content == Line(docx, x_id)
    IN  IF PosQGramArrayFromPanics(x_content, q)
        THEN {[kind |-> "panic", verified |-> <<>>]}
        ELSE UNION {WorkerWith(xs, x_id, x_content, YVec(docx, docy), inverted,
                               selfjoin, q, tau) :
                      xs \in sort_by_frequency(PosQGramArrayFrom(x_content, q), inverted)}

\* output_vec.par_sort_by_key(|x| x.0): a stable sort by the line id of
\* doc_x.
RECURSIVE InsertByKey(_, _)
InsertByKey(e, sorted) ==
    IF sorted = <<>> THEN <<e>>
    ELSE IF Head(sorted)[1] <= e[1]
         THEN <<Head(sorted)>> \o InsertByKey(e, Tail(sorted))
    ELSE <<e>> \o sorted

\* The output kept in the order of arrival.
par_sort_by_key_skipped(v) == v

RECURSIVE par_sort_by_key(_)
par_sort_by_key(v) ==
    IF v = <<>> THEN <<>>
    ELSE InsertByKey(v[Len(v)], par_sort_by_key(SubSeq(v, 1, Len(v) - 1)))

\* The lines written for output_vec: (id_x, id_y, ed) for every pair of
\* every entry, in the order of the vector.
RECURSIVE OutputLines(_)
OutputLines(v) ==
    IF v = <<>> THEN <<>>
    ELSE [k \in 1..Len(Head(v)[2]) |-> <<Head(v)[1], Head(v)[2][k][1], Head(v)[2][k][2]>>]
             \o OutputLines(Tail(v))

\* ------------------------------------------------------------------ state
VARIABLES
    doc_x,           \* the lines of the file doc_x
    doc_y,           \* the lines of the file doc_y
    self_join,       \* doc_x == doc_y: the two paths are the same
    q, tau,          \* the parameters of the run
    pc,              \* where the driver is
    inverted_index,  \* ngram_map of generate_inverted_index, inverted_index of ed_join
    chan,            \* map_y, then map_x: what is sent on the channel and not yet received
    sent,            \* the places of the current document already sent on the channel
    pending,         \* the lines of doc_x no worker has taken yet
    output_chan,     \* the vectors sent on output_s and not yet received
    output_vec,      \* output_vec of ed_join
    written,         \* the lines written to the output file
    prev,            \* how the previous run on this input ended, if there was one
    call,            \* the arguments of a function called on its own
    ret              \* what that call returned

vars == <<doc_x, doc_y, self_join, q, tau, pc, inverted_index, chan, sent,
          pending, output_chan, output_vec, written, prev, call, ret>>

\* The records: the non-empty ASCII strings of at most MaxLen bytes.
Records == UNION {[1..n -> AsciiBytes] : n \in 1..MaxLen}

DocBytes(doc) == SumSeq([k \in 1..Len(doc) |-> Len(doc[k])])

\* The documents of at most recs records and at most bytes bytes.
Docs(recs, bytes) ==
    {d \in UNION {[1..n -> Records] : n \in 0..recs} : DocBytes(d) <= bytes}

\* q_validator: 1 <= q <= the length of the shortest line of both files.
ValidQ(docx, docy, qq) ==
    /\ qq >= 1
    /\ \A k \in 1..Len(docx) : qq <= Len(docx[k])
    /\ \A k \in 1..Len(docy) : qq <= Len(docy[k])

NoPrev == [kind |-> "none", lines |-> <<>>, self_join |-> FALSE]

NoCall == [fn |-> "none"]

\* The state a run on given files and parameters starts in, at `at`.
Start(docx, docy, selfjoin, qq, tt, at) ==
    /\ doc_x = docx
    /\ doc_y = docy
    /\ self_join = selfjoin
    /\ q = qq
    /\ tau = tt
    /\ pc = at
    /\ inverted_index = <<>>
    /\ chan = <<>>
    /\ sent = {}
    /\ pending = {}
    /\ output_chan = <<>>
    /\ output_vec = <<>>
    /\ written = <<>>
    /\ prev = NoPrev

\* One file given as both documents (a self-join).
InitSelf(at) ==
    \E d \in Docs(MaxRecs, MaxBytes) : \E qq \in 1..MaxQ : \E tt \in 1..MaxTau :
        /\ ValidQ(d, d, qq)
        /\ Start(d, d, TRUE, qq, tt, at)
        /\ call = NoCall
        /\ ret = NoCall

\* Two files with two paths.
InitTwo(at) ==
    \E dx \in Docs(MaxRecsTwo, MaxBytesTwo) : \E dy \in Docs(MaxRecsTwo, MaxBytesTwo) :
      \E qq \in 1..MaxQ : \E tt \in 1..MaxTau :
        /\ ValidQ(dx, dy, qq)
        /\ Start(dx, dy, FALSE, qq, tt, at)
        /\ call = NoCall
        /\ ret = NoCall

\* ed_join(doc_x, doc_y, q, tau) is called.
Init == InitSelf("index") \/ InitTwo("index")

\* ---------------------------------------------------------------- ed_join
\* let inverted_index = generate_inverted_index(doc_x, doc_y, q)?
GenerateInvertedIndex ==
    /\ pc = "index"
    /\ IF generate_inverted_index_panics(doc_x, doc_y, self_join, q)
       THEN /\ pc' = "panicked"
            /\ UNCHANGED <<inverted_index, pending>>
       ELSE /\ inverted_index' \in generate_inverted_index(doc_x, doc_y, self_join, q)
            /\ pending' = LineIds(doc_x)
            /\ pc' = "workers"
    /\ UNCHANGED <<doc_x, doc_y, self_join, q, tau, chan, sent, output_chan,
                   output_vec, written, prev, call, ret>>

\* file_x_iter.for_each(|(x_id, line_x)| ...): a worker takes a line, in any
\* order, and sends its `verified` on output_s; a panic ends the run.
RunWorker(x_id) ==
    /\ pc = "workers"
    /\ x_id \in pending
    /\ \E r \in Worker(x_id, doc_x, doc_y, inverted_index, self_join, q, tau) :
          IF r.kind = "panic"
          THEN /\ pc' = "panicked"
               /\ UNCHANGED <<pending, output_chan>>
          ELSE /\ output_chan' = Append(output_chan, r.verified)
               /\ pending' = pending \ {x_id}
               /\ pc' = pc
    /\ UNCHANGED <<doc_x, doc_y, self_join, q, tau, inverted_index, chan, sent,
                   output_vec, written, prev, call, ret>>

\* drop(output_s), once for_each has returned.
DropOutputSender ==
    /\ pc = "workers"
    /\ pending = {}
    /\ pc' = "recv"
    /\ UNCHANGED <<doc_x, doc_y, self_join, q, tau, inverted_index, chan, sent,
                   pending, output_chan, output_vec, written, prev, call, ret>>

\* A receive that takes a vector off the channel and keeps nothing of it.
Receive_dropping ==
    /\ pc = "recv"
    /\ output_chan /= <<>>
    /\ output_chan' = Tail(output_chan)
    /\ UNCHANGED <<doc_x, doc_y, self_join, q, tau, pc, inverted_index, chan, sent,
                   pending, output_vec, written, prev, call, ret>>

\* while let Ok(mut v) = output_r.recv() { output_vec.append(&mut v) }
Receive ==
    /\ pc = "recv"
    /\ output_chan /= <<>>
    /\ output_vec' = output_vec \o Head(output_chan)
    /\ output_chan' = Tail(output_chan)
    /\ UNCHANGED <<doc_x, doc_y, self_join, q, tau, pc, inverted_index, chan, sent,
                   pending, written, prev, call, ret>>

\* recv() fails on the empty channel without senders; the loop ends and
\* output_vec.par_sort_by_key(|x| x.0) runs.
SortOutput ==
    /\ pc = "recv"
    /\ output_chan = <<>>
    /\ output_vec' = par_sort_by_key(output_vec)
    /\ pc' = "write"
    /\ UNCHANGED <<doc_x, doc_y, self_join, q, tau, inverted_index, chan, sent,
                   pending, output_chan, written, prev, call, ret>>

\* The lines are written in the order of output_vec.
WriteOutput ==
    /\ pc = "write"
    /\ written' = OutputLines(output_vec)
    /\ pc' = "done"
    /\ UNCHANGED <<doc_x, doc_y, self_join, q, tau, inverted_index, chan, sent,
                   pending, output_chan, output_vec, prev, call, ret>>

\* The program is run a second time on the same records and parameters:
\* with the same paths, or, after a self-join, with doc_y a second file
\* holding the same lines.
Rerun ==
    /\ pc \in {"done", "panicked"}
    /\ prev.kind = "none"
    /\ \E sj \in (IF self_join THEN {TRUE, FALSE} ELSE {FALSE}) :
          /\ self_join' = sj
          /\ prev' = [kind |-> pc, lines |-> written, self_join |-> self_join]
    /\ pc' = "index"
    /\ inverted_index' = <<>>
    /\ pending' = {}
    /\ output_chan' = <<>>
    /\ output_vec' = <<>>
    /\ written' = <<>>
    /\ UNCHANGED <<doc_x, doc_y, q, tau, chan, sent, call, ret>>

Next ==
    \/ GenerateInvertedIndex
    \/ \E x_id \in pending : RunWorker(x_id)
    \/ DropOutputSender
    \/ Receive
    \/ SortOutput
    \/ WriteOutput
    \/ Rerun

Spec == Init /\ [][Next]_vars

\* ------------------------------------- generate_inverted_index, by steps
\* The places of doc a producer may send next: the lines are taken in
\* order, the q-grams of one line are sent in parallel.
Sendable(doc) ==
    {place \in Places(doc, q) \ sent :
        \A other \in Places(doc, q) \ sent : place[1] <= other[1]}

\* ngram_map.entry(key).or_insert((Vec::new(), 0))
Entry(map, key) == IF key \in DOMAIN map THEN map[key] ELSE [list |-> <<>>, count |-> 0]

Insert(map, key, value) ==
    [k \in DOMAIN map \cup {key} |-> IF k = key THEN value ELSE map[k]]

\* The posting replaces the list instead of joining it.
Push_overwrites(e, posting) == [list |-> <<posting>>, count |-> e.count]

\* .0.push((line_id, pos))
Push(e, posting) == [list |-> Append(e.list, posting), count |-> e.count]

\* The second slot is left as it was.
SetCount_skipped(e) == e

\* value.1 = value.0.len()
SetCount(e) == [list |-> e.list, count |-> Len(e.list)]

\* *count += 1
AddCount(e) == [list |-> e.list, count |-> e.count + 1]

\* map_y_s_clone.send((key, (line_id, pos))), for one q-gram of doc_y.
SendY ==
    /\ pc = "send_y"
    /\ \E place \in Sendable(doc_y) :
          IF PosQGramArrayFromPanics(Line(doc_y, place[1]), q)
          THEN /\ pc' = "panicked"
               /\ UNCHANGED <<chan, sent>>
          ELSE /\ chan' = Append(chan, <<TokenAt(doc_y, q, place), place>>)
               /\ sent' = sent \cup {place}
               /\ pc' = pc
    /\ UNCHANGED <<doc_x, doc_y, self_join, q, tau, inverted_index, pending,
                   output_chan, output_vec, written, prev, call, ret>>

\* drop(map_y_s), after the last line of doc_y.
DropY ==
    /\ pc = "send_y"
    /\ Sendable(doc_y) = {}
    /\ pc' = "recv_y"
    /\ UNCHANGED <<doc_x, doc_y, self_join, q, tau, inverted_index, chan, sent,
                   pending, output_chan, output_vec, written, prev, call, ret>>

\* while let Ok((key, (line_id, pos))) = map_y_r.recv(): the posting is
\* pushed to the list of its token.
RecvY ==
    /\ pc = "recv_y"
    /\ chan /= <<>>
    /\ LET key == Head(chan)[1]
           e == Entry(inverted_index, key)
       IN  inverted_index' = Insert(inverted_index, key, Push(e, Head(chan)[2]))
    /\ chan' = Tail(chan)
    /\ UNCHANGED <<doc_x, doc_y, self_join, q, tau, pc, sent, pending,
                   output_chan, output_vec, written, prev, call, ret>>

\* The occurrences in doc_y are counted into the second slot; doc_x is
\* read next when the two paths differ.
CountY ==
    /\ pc = "recv_y"
    /\ chan = <<>>
    /\ inverted_index' = [k \in DOMAIN inverted_index |-> SetCount(inverted_index[k])]
    /\ sent' = {}
    /\ pc' = IF self_join THEN "sort" ELSE "send_x"
    /\ UNCHANGED <<doc_x, doc_y, self_join, q, tau, chan, pending,
                   output_chan, output_vec, written, prev, call, ret>>

\* map_x_s_clone.send(key), for one q-gram of doc_x.
SendX ==
    /\ pc = "send_x"
    /\ \E place \in Sendable(doc_x) :
          IF PosQGramArrayFromPanics(Line(doc_x, place[1]), q)
          THEN /\ pc' = "panicked"
               /\ UNCHANGED <<chan, sent>>
          ELSE /\ chan' = Append(chan, TokenAt(doc_x, q, place))
               /\ sent' = sent \cup {place}
               /\ pc' = pc
    /\ UNCHANGED <<doc_x, doc_y, self_join, q, tau, inverted_index, pending,
                   output_chan, output_vec, written, prev, call, ret>>

\* drop(map_x_s), after the last line of doc_x.
DropX ==
    /\ pc = "send_x"
    /\ Sendable(doc_x) = {}
    /\ pc' = "recv_x"
    /\ UNCHANGED <<doc_x, doc_y, self_join, q, tau, inverted_index, chan, sent,
                   pending, output_chan, output_vec, written, prev, call, ret>>

\* while let Ok(key) = map_x_r.recv(): the count of the token grows by one.
RecvX ==
    /\ pc = "recv_x"
    /\ chan /= <<>>
    /\ LET key == Head(chan)
           e == Entry(inverted_index, key)
       IN  inverted_index' = Insert(inverted_index, key, AddCount(e))
    /\ chan' = Tail(chan)
    /\ UNCHANGED <<doc_x, doc_y, self_join, q, tau, pc, sent, pending,
                   output_chan, output_vec, written, prev, call, ret>>

\* drop(map_x_r), when the channel is empty.
DropXReceiver ==
    /\ pc = "recv_x"
    /\ chan = <<>>
    /\ pc' = "sort"
    /\ UNCHANGED <<doc_x, doc_y, self_join, q, tau, inverted_index, chan, sent,
                   pending, output_chan, output_vec, written, prev, call, ret>>

\* The maps that hold, for each token of T, some outcome of sorting its list.
RECURSIVE SortedMaps(_, _)
SortedMaps(T, map) ==
    IF T = {} THEN {<<>>}
    ELSE LET t == CHOOSE x \in T : TRUE
         IN  {(t :> [list |-> l, count |-> map[t].count]) @@ m :
                 l \in sort_by_id(map[t].list), m \in SortedMaps(T \ {t}, map)}

\* Every posting list is sorted by line id; the map is returned.
SortLists ==
    /\ pc = "sort"
    /\ inverted_index' \in SortedMaps(DOMAIN inverted_index, inverted_index)
    /\ pc' = "indexed"
    /\ UNCHANGED <<doc_x, doc_y, self_join, q, tau, chan, sent, pending,
                   output_chan, output_vec, written, prev, call, ret>>

NextIndex ==
    \/ SendY
    \/ DropY
    \/ RecvY
    \/ CountY
    \/ SendX
    \/ DropX
    \/ RecvX
    \/ DropXReceiver
    \/ SortLists

\* generate_inverted_index(doc_x, doc_y, q) is called.
InitIndex == InitSelf("send_y") \/ InitTwo("send_y")

SpecIndex == InitIndex /\ [][NextIndex]_vars

\* ----------------------------------------------- PosQGramArray::from alone
\* The longest string, in bytes, and the largest q of a call on its own.
MaxStrBytes == 4
MaxCallQ == 3

\* The valid strings of at most n bytes over 'a', 'b' and U+00E9.
RECURSIVE Strings(_)
Strings(n) ==
    IF n <= 0 THEN {<<>>}
    ELSE {<<>>}
         \cup {<<b>> \o s : b \in AsciiBytes, s \in Strings(n - 1)}
         \cup (IF n >= 2 THEN {EAcute \o s : s \in Strings(n - 2)} ELSE {})

\* PosQGramArray::from(s, q) is called with a string and a q >= 1.
InitFrom ==
    /\ \E s \in Strings(MaxStrBytes) : \E qq \in 1..MaxCallQ :
          call = [fn |-> "from", s |-> s, q |-> qq]
    /\ ret = NoCall
    /\ Start(<<>>, <<>>, TRUE, 1, 1, "call")

\* The call returns the array or panics.
CallFrom ==
    /\ pc = "call"
    /\ call.fn = "from"
    /\ ret' = IF PosQGramArrayFromPanics(call.s, call.q)
              THEN [kind |-> "panic", inner |-> <<>>]
              ELSE [kind |-> "ok", inner |-> PosQGramArrayFrom(call.s, call.q)]
    /\ pc' = "returned"
    /\ UNCHANGED <<doc_x, doc_y, self_join, q, tau, inverted_index, chan, sent,
                   pending, output_chan, output_vec, written, prev, call>>

NextFrom == CallFrom

SpecFrom == InitFrom /\ [][NextFrom]_vars

\* ----------------------------------------------------------------- claims
\* The pairs a comparison of all pairs of records reports: every (i, j) with
\* the Levenshtein distance of X[i] and Y[j] at most t, and i < j in a
\* self-join.
BruteForce(docx, docy, selfjoin, t) ==
    {<<i, j, edit_distance(Line(docx, i), Line(docy, j))>> :
        <<i, j>> \in {p \in LineIds(docx) \X LineIds(docy) :
            /\ selfjoin => p[1] < p[2]
            /\ edit_distance(Line(docx, p[1]), Line(docy, p[2])) <= t}}

Terminated == pc \in {"done", "panicked"}

\* C1: a self-join that has finished has written exactly the triples
\* (i, j, ed(r_i, r_j)) with i < j and ed(r_i, r_j) <= tau, the set a
\* comparison of all pairs gives.
C1_Completeness ==
    (pc = "done" /\ self_join) => Range(written) = BruteForce(doc_x, doc_x, TRUE, tau)

\* C2: every line (x_id, y_id, ed) written names a record of doc_x and one
\* of doc_y, ed is their Levenshtein distance, and ed <= tau.
C2_EmittedExact ==
    pc = "done" =>
        \A k \in 1..Len(written) :
            /\ written[k][1] \in LineIds(doc_x)
            /\ written[k][2] \in LineIds(doc_y)
            /\ written[k][3] = edit_distance(Line(doc_x, written[k][1]),
                                             Line(doc_y, written[k][2]))
            /\ written[k][3] <= tau

\* C3: in a self-join every line written has x_id < y_id, and no two lines
\* name the same pair of records.
C3_SelfJoinOnce ==
    (pc = "done" /\ self_join) =>
        /\ \A k \in 1..Len(written) : written[k][1] < written[k][2]
        /\ \A k, l \in 1..Len(written) :
              (k /= l) => {written[k][1], written[k][2]} /= {written[l][1], written[l][2]}

\* A self-join has written a pair of records of which the first has two
\* q-grams that each occur in the second: the pair has several postings.
C3_Witness ==
    /\ pc = "done"
    /\ self_join
    /\ \E k \in 1..Len(written) :
          \E p1, p2 \in Places(doc_x, q) :
             /\ p1 /= p2
             /\ p1[1] = written[k][1]
             /\ p2[1] = written[k][1]
             /\ \E r1, r2 \in Places(doc_x, q) :
                   /\ r1 /= r2
                   /\ r1[1] = written[k][2]
                   /\ r2[1] = written[k][2]
                   /\ TokenAt(doc_x, q, r1) = TokenAt(doc_x, q, p1)
                   /\ TokenAt(doc_x, q, r2) = TokenAt(doc_x, q, p2)

\* The order of the output file: by x_id, then by y_id.
LineLeq(a, b) == a[1] < b[1] \/ (a[1] = b[1] /\ a[2] <= b[2])

\* C4: the lines written are in ascending order of x_id and, for one x_id,
\* of y_id, whatever order the workers ran and their results arrived in.
C4_OutputSorted ==
    pc = "done" => \A k, l \in 1..Len(written) : (k < l) => LineLeq(written[k], written[l])

\* A finished run that wrote lines for at least two lines of doc_x, three
\* lines or more in all.
C4_Witness ==
    /\ pc = "done"
    /\ Len(written) >= 3
    /\ written[1][1] /= written[Len(written)][1]

\* C5: a second run on the same files and parameters ends as the first did
\* and writes the same lines.
C5_Deterministic ==
    (Terminated /\ prev.kind /= "none" /\ prev.self_join = self_join) =>
        (prev.kind = pc /\ prev.lines = written)

\* C6: a join of two files completes, and every line (x_id, y_id, ed) it
\* writes names a record of doc_x and a record of doc_y within distance tau
\* of each other, ed being the distance of these two records.
C6_TwoCollection ==
    (~self_join /\ prev.kind = "none") =>
        /\ pc /= "panicked"
        /\ pc = "done" =>
              \A k \in 1..Len(written) :
                 /\ written[k][1] \in LineIds(doc_x)
                 /\ written[k][2] \in LineIds(doc_y)
                 /\ written[k][3] = edit_distance(Line(doc_x, written[k][1]),
                                                  Line(doc_y, written[k][2]))
                 /\ written[k][3] <= tau

\* C7: after a self-join on R that wrote its output, the join of two files
\* that both hold R completes, and its lines with y_id > x_id are the lines
\* of the self-join.
C7_SelfVersusTwo ==
    (Terminated /\ prev.kind = "done" /\ prev.self_join /\ ~self_join) =>
        /\ pc = "done"
        /\ {written[k] : k \in {n \in 1..Len(written) : written[n][2] > written[n][1]}}
              = Range(prev.lines)

\* C8: PosQGramArray::from(s, q) returns, with max(0, |s| - q + 1) q-grams,
\* the k-th at loc k and holding the bytes s[k .. k+q].
C8_FromTotal ==
    (pc = "returned" /\ call.fn = "from") =>
        /\ ret.kind = "ok"
        /\ Len(ret.inner) = (IF Len(call.s) >= call.q THEN Len(call.s) - call.q + 1 ELSE 0)
        /\ \A k \in 1..Len(ret.inner) :
              /\ ret.inner[k].loc = k - 1
              /\ ret.inner[k].token = SubSeq(call.s, k, k + call.q - 1)

\* The postings of a list are in ascending order of line id.
SortedById(list) == \A k, l \in 1..Len(list) : (k < l) => list[k][1] <= list[l][1]

\* The postings of one line are in ascending order of loc.
TiesByLoc(list) ==
    \A k, l \in 1..Len(list) : (k < l /\ list[k][1] = list[l][1]) => list[k][2] < list[l][2]

\* The list holds each occurrence of the token in doc exactly once.
OncePerOccurrence(list, doc, token) ==
    /\ Range(list) = Occurrences(doc, q, token)
    /\ Len(list) = Cardinality(Occurrences(doc, q, token))

\* C9 (as stated): the index returned has, for every token of doc_y, a list
\* with one posting per occurrence in doc_y, in ascending order of line id
\* and, within a line, of loc.
C9_PostingsSortedByIdAndLoc ==
    pc = "indexed" =>
        /\ DocTokens(doc_y, q) \subseteq DOMAIN inverted_index
        /\ \A token \in DOMAIN inverted_index :
              /\ OncePerOccurrence(inverted_index[token].list, doc_y, token)
              /\ SortedById(inverted_index[token].list)
              /\ TiesByLoc(inverted_index[token].list)

\* C9 (amended): the index returned has, for every token of doc_y, a list
\* with one posting per occurrence in doc_y, in ascending order of line id;
\* the postings of one line are in no particular order.
C9_PostingsSortedById ==
    pc = "indexed" =>
        /\ DocTokens(doc_y, q) \subseteq DOMAIN inverted_index
        /\ \A token \in DOMAIN inverted_index :
              /\ OncePerOccurrence(inverted_index[token].list, doc_y, token)
              /\ SortedById(inverted_index[token].list)

\* An index is returned in which a token occurs in two lines of doc_y, twice
\* in one of them, and the two postings of that line are in descending
\* order of loc.
C9_Witness ==
    /\ pc = "indexed"
    /\ \E token \in DOMAIN inverted_index :
          /\ Cardinality({p[1] : p \in Range(inverted_index[token].list)}) >= 2
          /\ ~TiesByLoc(inverted_index[token].list)

\* C10: in the index returned, the count of a token is the length of its
\* list in a self-join; with two files it is the number of occurrences of
\* the token in doc_x plus that in doc_y, while the list holds the
\* occurrences in doc_y only, so a token of doc_x alone has an empty list
\* and a positive count.
C10_Frequency ==
    pc = "indexed" =>
        /\ DOMAIN inverted_index = DocTokens(doc_y, q) \cup
                                   (IF self_join THEN {} ELSE DocTokens(doc_x, q))
        /\ \A token \in DOMAIN inverted_index :
              /\ Range(inverted_index[token].list) = Occurrences(doc_y, q, token)
              /\ self_join => inverted_index[token].count = Len(inverted_index[token].list)
              /\ ~self_join =>
                    inverted_index[token].count =
                        Cardinality(Occurrences(doc_x, q, token))
                            + Cardinality(Occurrences(doc_y, q, token))
              /\ (~self_join /\ token \notin DocTokens(doc_y, q)) =>
                    /\ inverted_index[token].list = <<>>
                    /\ inverted_index[token].count > 0

\* An index for two files is returned in which one token occurs in doc_x
\* only and another in both files.
C10_Witness ==
    /\ pc = "indexed"
    /\ ~self_join
    /\ \E token \in DOMAIN inverted_index :
          inverted_index[token].list = <<>> /\ inverted_index[token].count >= 2
    /\ \E token \in DOMAIN inverted_index :
          /\ inverted_index[token].list /= <<>>
          /\ inverted_index[token].count > Len(inverted_index[token].list)

\* The index the steps of SpecIndex build is one that the call of
\* generate_inverted_index in Spec may return.
IndexStepsMatchCall ==
    pc = "indexed" => inverted_index \in generate_inverted_index(doc_x, doc_y, self_join, q)

\* ------------------------- the functions on q-gram arrays, called alone
\* The longest array handed to a function called on its own.
MaxArrLen == 4

\* The ASCII strings of lo to hi bytes.
AsciiStrings(lo, hi) == UNION {[1..n -> AsciiBytes] : n \in lo..hi}

\* The arrays made of some elements of arr, each at most once, in any order.
SubArrays(arr) ==
    {t \in UNION {[1..n -> Range(arr)] : n \in 0..Len(arr)} :
        \A i, j \in 1..Len(t) : (i /= j) => t[i] /= t[j]}

\* The arrays holding the elements of arr in any order.
Reorderings(arr) == {t \in SubArrays(arr) : Len(t) = Len(arr)}

\* An index of the file whose only line is s.  The indexes of that file
\* differ in the order of their lists only, which the comparator of
\* sort_by_frequency does not read.
IndexOfLine(s, qq) == CHOOSE inv \in generate_inverted_index(<<s>>, <<s>>, TRUE, qq) : TRUE

\* A function is called with q-grams of a record s of which every window
\* of q bytes is a q-gram: some of them in any order for min_edit_errors
\* and calc_prefix_len, all of them in any order for the two sorts, with
\* the index of the file that holds s.
InitCalls ==
    /\ \E qq \in 1..MaxCallQ : \E s \in AsciiStrings(qq, MaxArrLen + qq - 1) :
          \/ \E arr \in SubArrays(PosQGramArrayFrom(s, qq)) :
                \/ call = [fn |-> "min_edit_errors", arr |-> arr, q |-> qq]
                \/ \E tt \in 1..MaxTau :
                      call = [fn |-> "calc_prefix_len", arr |-> arr, q |-> qq, tau |-> tt]
          \/ \E arr \in Reorderings(PosQGramArrayFrom(s, qq)) :
                \/ call = [fn |-> "sort_by_location", arr |-> arr]
                \/ call = [fn |-> "sort_by_frequency", arr |-> arr,
                           inverted |-> IndexOfLine(s, qq)]
    /\ ret = NoCall
    /\ Start(<<>>, <<>>, TRUE, 1, 1, "call")

\* min_edit_errors(&qgram_array, q) returns; the slice is borrowed
\* immutably and is as it was.
CallMinEditErrors ==
    /\ pc = "call"
    /\ call.fn = "min_edit_errors"
    /\ ret' = [value |-> min_edit_errors(call.arr, call.q), arr |-> call.arr]
    /\ pc' = "returned"
    /\ UNCHANGED <<doc_x, doc_y, self_join, q, tau, inverted_index, chan, sent,
                   pending, output_chan, output_vec, written, prev, call>>

\* calc_prefix_len(&mut qgram_array, q, tau) returns.
CallCalcPrefixLen ==
    /\ pc = "call"
    /\ call.fn = "calc_prefix_len"
    /\ ret' = [value |-> calc_prefix_len(call.arr, call.q, call.tau)]
    /\ pc' = "returned"
    /\ UNCHANGED <<doc_x, doc_y, self_join, q, tau, inverted_index, chan, sent,
                   pending, output_chan, output_vec, written, prev, call>>

\* sort_by_location() is applied to the array, and again to the result.
CallSortByLocation ==
    /\ pc = "call"
    /\ call.fn = "sort_by_location"
    /\ \E once \in sort_by_location(call.arr) : \E twice \in sort_by_location(once) :
          ret' = [once |-> once, twice |-> twice]
    /\ pc' = "returned"
    /\ UNCHANGED <<doc_x, doc_y, self_join, q, tau, inverted_index, chan, sent,
                   pending, output_chan, output_vec, written, prev, call>>

\* sort_by_frequency(&inverted) is applied to the array, and again to the
\* result, with the same index.
CallSortByFrequency ==
    /\ pc = "call"
    /\ call.fn = "sort_by_frequency"
    /\ \E once \in sort_by_frequency(call.arr, call.inverted) :
          \E twice \in sort_by_frequency(once, call.inverted) :
             ret' = [once |-> once, twice |-> twice]
    /\ pc' = "returned"
    /\ UNCHANGED <<doc_x, doc_y, self_join, q, tau, inverted_index, chan, sent,
                   pending, output_chan, output_vec, written, prev, call>>

NextCalls ==
    \/ CallMinEditErrors
    \/ CallCalcPrefixLen
    \/ CallSortByLocation
    \/ CallSortByFrequency

SpecCalls == InitCalls /\ [][NextCalls]_vars

Returned(fn) == pc = "returned" /\ call.fn = fn

\* The positions an edit can fall on to destroy a q-gram of arr.
EditPositions(arr, qq) == UNION {arr[k].loc..(arr[k].loc + qq - 1) : k \in 1..Len(arr)}

\* P destroys every q-gram of arr: each has a position of P in its window.
Destroys(P, arr, qq) ==
    \A k \in 1..Len(arr) : \E p \in P : arr[k].loc <= p /\ p <= arr[k].loc + qq - 1

\* The size of the smallest set of positions that destroys every q-gram.
MinDestroying(arr, qq) ==
    LET sizes == {Cardinality(P) : P \in {S \in SUBSET EditPositions(arr, qq) :
                                              Destroys(S, arr, qq)}}
    IN  CHOOSE n \in sizes : \A m \in sizes : n <= m

\* C11: min_edit_errors(S, q) returns the size of the smallest set of
\* positions of which every q-gram of S holds one in its window
\* loc .. loc + q - 1.
C11_MinEditErrorsIsMinimum ==
    Returned("min_edit_errors") => ret.value = MinDestroying(call.arr, call.q)

\* The prefix lengths calc_prefix_len chooses from, and those among them at
\* which min_edit_errors, as the code computes it, exceeds tau.
PrefixRange(arr, qq, tt) == (tt + 1)..Min(qq * tt + 1, Len(arr))

PrefixesOver(arr, qq, tt) ==
    {p \in PrefixRange(arr, qq, tt) : min_edit_errors(SubSeq(arr, 1, p), qq) > tt}

\* C12: calc_prefix_len(A, q, tau) returns the smallest p in
\* [tau+1, min(q*tau+1, |A|)] with min_edit_errors(A[0..p], q) > tau, and
\* min(q*tau+1, |A|) when there is none; it exceeds neither |A| nor q*tau+1.
C12_PrefixLenIsSmallest ==
    Returned("calc_prefix_len") =>
        LET over == PrefixesOver(call.arr, call.q, call.tau)
        IN  /\ over /= {} =>
                  /\ ret.value \in over
                  /\ \A p \in over : ret.value <= p
            /\ over = {} => ret.value = Min(call.q * call.tau + 1, Len(call.arr))
            /\ ret.value <= Len(call.arr)
            /\ ret.value <= call.q * call.tau + 1

\* A call returns a prefix length the binary search had to move to: the
\* errors exceed tau at the length returned and not at tau + 1.
C12_Witness ==
    /\ Returned("calc_prefix_len")
    /\ ret.value \in PrefixesOver(call.arr, call.q, call.tau)
    /\ ret.value > call.tau + 1

\* C13 (as stated): for a fixed array, the prefix length does not shrink
\* when tau grows and does not grow when q grows.
C13_PrefixLenMonotone ==
    Returned("calc_prefix_len") =>
        /\ \A tt \in call.tau..MaxTau :
              ret.value <= calc_prefix_len(call.arr, call.q, tt)
        /\ \A qq \in call.q..MaxCallQ :
              ret.value >= calc_prefix_len(call.arr, qq, call.tau)

\* C13 (amended): for a fixed array, the prefix length does not shrink
\* when tau grows, and does not shrink when q grows either.
C13_PrefixLenNonDecreasing ==
    Returned("calc_prefix_len") =>
        /\ \A tt \in call.tau..MaxTau :
              ret.value <= calc_prefix_len(call.arr, call.q, tt)
        /\ \A qq \in call.q..MaxCallQ :
              ret.value <= calc_prefix_len(call.arr, qq, call.tau)

\* A call returns a prefix length that is smaller than the one of the same
\* array with the next tau, and smaller than the one with the next q.
C13_Witness ==
    /\ Returned("calc_prefix_len")
    /\ call.tau < MaxTau
    /\ call.q < MaxCallQ
    /\ ret.value < calc_prefix_len(call.arr, call.q, call.tau + 1)
    /\ ret.value < calc_prefix_len(call.arr, call.q + 1, call.tau)

\* C14: sorting twice gives the array that sorting once gives, for
\* sort_by_location and for sort_by_frequency under one index, also when a
\* token occurs at several locations.
C14_SortsIdempotent ==
    (Returned("sort_by_location") \/ Returned("sort_by_frequency")) =>
        ret.twice = ret.once

\* The part of C14 on sort_by_location, whose keys are distinct within the
\* array of a record.
C14_SortByLocationIdempotent ==
    Returned("sort_by_location") => ret.twice = ret.once

\* C18: min_edit_errors returns the same number for every order of the
\* elements of its slice, and leaves the caller's slice as it was.
C18_MinEditErrorsOrderFree ==
    Returned("min_edit_errors") =>
        /\ ret.arr = call.arr
        /\ \A other \in Reorderings(call.arr) :
              min_edit_errors(other, call.q) = ret.value

\* ------------------------------------- matching.rs: one worker, by steps
\* The closure of ed_join for one line of doc_x, taken apart: the worker's
\* locals are in `call`, the last call of verify and what it computed in
\* `ret`.

\* The closure up to `candidates`: the q-grams of line_x in frequency
\* order, the prefix length, and the filtered, sorted, deduplicated line ids.
GenerateCandidates(x_id) ==
    /\ pc = "workers"
    /\ x_id \in pending
    /\ LET x_content == Line(doc_x, x_id)
           y_vec == YVec(doc_x, doc_y)
       IN  IF PosQGramArrayFromPanics(x_content, q)
           THEN /\ pc' = "panicked"
                /\ UNCHANGED <<pending, call, ret>>
           ELSE \E xs \in sort_by_frequency(PosQGramArrayFrom(x_content, q),
                                            inverted_index) :
                  LET prefix_len == calc_prefix_len(xs, q, tau)
                  IN  IF CandidatesPanic(xs, prefix_len, x_id, inverted_index,
                                         self_join, y_vec)
                      THEN /\ pc' = "panicked"
                           /\ UNCHANGED <<pending, call, ret>>
                      ELSE LET cands == Candidates(xs, prefix_len, x_id, x_content,
                                                   inverted_index, self_join, y_vec, tau)
                           IN  /\ call' = [fn |-> "worker", x_id |-> x_id,
                                           qgram_array_x |-> xs,
                                           prefix_len |-> prefix_len,
                                           candidates |-> cands, todo |-> cands,
                                           verified |-> <<>>]
                               /\ ret' = NoCall
                               /\ pending' = pending \ {x_id}
                               /\ pc' = "candidates"
    /\ UNCHANGED <<doc_x, doc_y, self_join, q, tau, inverted_index, chan, sent,
                   output_chan, output_vec, written, prev>>

\* One turn of candidates.par_iter().filter_map(...): the q-grams of the
\* candidate line are built and verify is called; Some(ed) adds an entry to
\* `verified`.  ret keeps the two arrays as verify sorted them, the value
\* of compare_qgrams, and the result.
CallVerify ==
    /\ pc = "candidates"
    /\ call.todo /= <<>>
    /\ LET y_id == Head(call.todo)
           x_content == Line(doc_x, call.x_id)
           y_content == Line(YVec(doc_x, doc_y), y_id)
       IN  IF PosQGramArrayFromPanics(y_content, q)
           THEN /\ pc' = "panicked"
                /\ UNCHANGED <<call, ret>>
           ELSE \E xs \in sort_by_frequency(call.qgram_array_x, inverted_index) :
                \E ys \in sort_by_frequency(PosQGramArrayFrom(y_content, q),
                                            inverted_index) :
                \E cm \in compare_qgrams(xs, ys, inverted_index, CompareSlack(q, tau)) :
                  LET v == verify_filters(cm, x_content, y_content, q, tau)
                  IN  /\ ret' = [fn |-> "verify", y_id |-> y_id, x |-> xs, y |-> ys,
                                 cm |-> cm, result |-> v]
                      /\ IF v.kind = "panic"
                         THEN /\ pc' = "panicked"
                              /\ call' = call
                         ELSE /\ pc' = pc
                              /\ call' = [call EXCEPT
                                   !.todo = Tail(@),
                                   !.verified =
                                       IF v.kind = "some"
                                       THEN Append(@, <<call.x_id, <<<<y_id, v.ed>>>>>>)
                                       ELSE @]
    /\ UNCHANGED <<doc_x, doc_y, self_join, q, tau, inverted_index, chan, sent,
                   pending, output_chan, output_vec, written, prev>>

\* output_s.send(verified), after the last candidate.
SendVerified ==
    /\ pc = "candidates"
    /\ call.todo = <<>>
    /\ output_chan' = Append(output_chan, call.verified)
    /\ call' = NoCall
    /\ ret' = NoCall
    /\ pc' = "workers"
    /\ UNCHANGED <<doc_x, doc_y, self_join, q, tau, inverted_index, chan, sent,
                   pending, output_vec, written, prev>>

NextWorker ==
    \/ GenerateInvertedIndex
    \/ \E x_id \in pending : GenerateCandidates(x_id)
    \/ CallVerify
    \/ SendVerified

\* A self-join, followed through the index and the workers.
SpecWorker == InitSelf("index") /\ [][NextWorker]_vars

\* The steps of a worker give what the closure as a whole gives.
WorkerStepsMatchCall ==
    /\ (pc \in {"candidates", "panicked"} /\ ret.fn = "verify") =>
          ret.result \in verify(call.qgram_array_x, Line(doc_x, call.x_id),
                                PosQGramArrayFrom(Line(doc_x, ret.y_id), q),
                                Line(doc_x, ret.y_id), inverted_index, q, tau)
    /\ (pc = "candidates" /\ call.todo = <<>>) =>
          \E r \in Worker(call.x_id, doc_x, doc_y, inverted_index, self_join, q, tau) :
              r.kind = "ok" /\ r.verified = call.verified

\* A call of verify has returned or panicked.
Verified == call.fn = "worker" /\ ret.fn = "verify"

\* C15: verify never fails for a pair that passed the length filter: the
\* window of the content filter lies inside both strings, so no call of
\* verify made by a worker panics.
C15_VerifyNeverFails ==
    Verified => ret.result.kind /= "panic"

\* C17: verify compares the q-grams with the slack tau, whatever q is: what
\* it gets from compare_qgrams is what the traversal with slack tau gives on
\* the same two arrays.
C17_CompareSlackIsTau ==
    Verified => ret.cm \in compare_qgrams(ret.x, ret.y, inverted_index, tau)

\* C19: for every pair handed to verify, verify returns a match exactly
\* when the edit distance of the two strings is at most tau, and then
\* returns that distance.
C19_VerifySound ==
    Verified =>
        LET d == edit_distance(Line(doc_x, call.x_id), Line(doc_x, ret.y_id))
        IN  /\ (ret.result.kind = "some") <=> (d <= tau)
            /\ ret.result.kind = "some" => ret.result.ed = d

\* C20: in a self-join, every later line within edit distance tau of line
\* x_id is among the candidates of x_id, also when x has fewer than tau + 1
\* q-grams.
C20_CandidatesComplete ==
    (pc = "candidates" /\ call.fn = "worker") =>
        \A y_id \in LineIds(doc_x) :
            (y_id > call.x_id
             /\ edit_distance(Line(doc_x, call.x_id), Line(doc_x, y_id)) <= tau)
                => y_id \in Range(call.candidates)

\* --------------------------------------------- cli.rs: the command line
\* parse_config followed by ed_join on the Config it returns.

\* The value given for -t when the option is absent: unwrap_or("2").
DefaultTau == 2

\* An option of the command line: absent, an unsigned integer, or text
\* that str::parse::<usize> refuses.
Options(hi) ==
    {[kind |-> "absent", v |-> 0], [kind |-> "bad", v |-> 0]}
        \cup {[kind |-> "int", v |-> n] : n \in 0..hi}

\* lines().map(|line| line.unwrap().len()).min(): None for a file without
\* lines.
RECURSIVE MinLen(_)
MinLen(doc) ==
    IF Len(doc) = 1 THEN Len(doc[1]) ELSE Min(Len(doc[1]), MinLen(Tail(doc)))

\* calc_min_line_len unwraps the minimum of each file.
calc_min_line_len_panics(docx, docy) == docx = <<>> \/ docy = <<>>

calc_min_line_len(docx, docy) == Min(MinLen(docx), MinLen(docy))

\* q_validator on the text of the option.
q_validator(opt, min_line_len) ==
    IF opt.kind = "int" /\ opt.v >= 1 /\ opt.v <= min_line_len
    THEN [kind |-> "ok", v |-> opt.v]
    ELSE [kind |-> "err", v |-> 0]

\* tau_validator on the text of the option.
tau_validator(opt) ==
    IF opt.kind = "int" /\ opt.v >= 1
    THEN [kind |-> "ok", v |-> opt.v]
    ELSE [kind |-> "err", v |-> 0]

\* The program is started on one or two readable files, with or without
\* -q and -t; q and tau are not known yet.
InitMain ==
    \E dx \in Docs(MaxRecsTwo, MaxBytesTwo) : \E dy \in Docs(MaxRecsTwo, MaxBytesTwo) :
      \E sj \in BOOLEAN : \E qo \in Options(MaxQ) : \E to \in Options(MaxTau) :
        /\ sj => dy = dx
        /\ Start(dx, dy, sj, 0, 0, "parse")
        /\ call = [fn |-> "parse_config", q |-> qo, tau |-> to]
        /\ ret = NoCall

\* parse_config: the shortest line of both files is computed first, then q
\* (default: that length) and tau (default: 2) are validated; an error ends
\* the program with exit(1) before ed_join is called.
ParseConfig ==
    /\ pc = "parse"
    /\ IF calc_min_line_len_panics(doc_x, doc_y)
       THEN /\ pc' = "panicked"
            /\ UNCHANGED <<q, tau>>
       ELSE LET min_line_len == calc_min_line_len(doc_x, doc_y)
                qv == q_validator(IF call.q.kind = "absent"
                                  THEN [kind |-> "int", v |-> min_line_len]
                                  ELSE call.q,
                                  min_line_len)
                tv == tau_validator(IF call.tau.kind = "absent"
                                    THEN [kind |-> "int", v |-> DefaultTau]
                                    ELSE call.tau)
            IN  IF qv.kind = "err" \/ tv.kind = "err"
                THEN /\ pc' = "rejected"
                     /\ UNCHANGED <<q, tau>>
                ELSE /\ q' = qv.v
                     /\ tau' = tv.v
                     /\ pc' = "index"
    /\ UNCHANGED <<doc_x, doc_y, self_join, inverted_index, chan, sent, pending,
                   output_chan, output_vec, written, prev, call, ret>>

NextMain ==
    \/ ParseConfig
    \/ GenerateInvertedIndex
    \/ \E x_id \in pending : RunWorker(x_id)
    \/ DropOutputSender
    \/ Receive
    \/ SortOutput
    \/ WriteOutput

SpecMain == InitMain /\ [][NextMain]_vars

\* C16: an empty input collection is accepted: with a file of zero records
\* the program does not fail while deriving the parameters or joining.
C16_EmptyInputAccepted ==
    (doc_x = <<>> \/ doc_y = <<>>) => pc /= "panicked"

\* ------------------- verification.rs: the end of verify, by steps
\* verify from the point where the count and the location filter have
\* passed: sum_right_errors, the evaluations of content_filter, the exact
\* verification.  doc_x holds line_content and candidate_content; `call`
\* holds the locals of verify and content_filter, `ret` what the last step
\* computed.

\* The records followed here have at most this many q-grams, and tau goes
\* up to MaxTailTau.
MaxGrams == 4
MaxTailTau == 3

\* The sub-arrays of arr in the order of arr.
InOrder(arr) ==
    {t \in SubArrays(arr) :
        \A i, j \in 1..Len(t) : (i < j) => t[i].loc < t[j].loc}

\* verify has compared the q-grams of x and y: the lengths of the two
\* records differ by at most tau, loose_mismatch holds q-grams of x in
\* location order (par_sort_by_key), at most epsilon_1 <= q * tau of them,
\* and min_edit_errors of it is at most tau.
InitTail ==
    \E qq \in 1..MaxQ : \E tt \in 1..MaxTailTau :
      \E x \in AsciiStrings(qq, MaxGrams + qq - 1) :
        \E y \in AsciiStrings(qq, MaxGrams + qq - 1) :
          \E mm \in InOrder(PosQGramArrayFrom(x, qq)) :
            /\ Abs(Len(y) - Len(x)) <= tt
            /\ Len(mm) <= qq * tt
            /\ min_edit_errors(mm, qq) <= tt
            /\ Start(<<x, y>>, <<x, y>>, TRUE, qq, tt, "right_errors")
            /\ call = [fn |-> "verify", loose_mismatch |-> mm, suffix_sum |-> <<>>,
                       i |-> 1, j |-> 0]
            /\ ret = NoCall

\* sum_right_errors(&mut loose_mismatch, q): the array is reversed, swept
\* and reversed again.  None leads to the exact verification; so does a
\* mismatch of one q-gram, for which content_filter returns None.
SumRightErrors ==
    /\ pc = "right_errors"
    /\ LET r == sum_right_errors(call.loose_mismatch, q)
           after == IF Len(call.loose_mismatch) = 0 THEN call.loose_mismatch
                    ELSE Reverse(Reverse(call.loose_mismatch))
       IN  /\ ret' = [fn |-> "sum_right_errors", kind |-> r.kind,
                      suffix_sum |-> r.suffix_sum, arg |-> call.loose_mismatch]
           /\ call' = [call EXCEPT !.loose_mismatch = after,
                                   !.suffix_sum = r.suffix_sum]
           /\ pc' = IF r.kind = "some" /\ Len(after) >= 2 THEN "content" ELSE "exact"
    /\ UNCHANGED <<doc_x, doc_y, self_join, q, tau, inverted_index, chan, sent,
                   pending, output_chan, output_vec, written, prev>>

\* What one evaluation of the closure epsi leaves in ret.
Evaluation(ii, jj) ==
    LET from == Line(doc_x, 0)
        to == Line(doc_x, 1)
        mismatch == call.loose_mismatch
        bound == At(mismatch, ii - 1).loc + q
        l1 == l1_distance(from, to, At(mismatch, jj).loc, bound - 1)
        right_error == find_first_right_error(call.suffix_sum, bound)
    IN  [fn |-> "epsi", bound |-> bound, l1 |-> l1, right_error |-> right_error,
         epsilon |-> (l1 \div 2) + right_error]

\* One turn of the while loop of content_filter.
ContentFilterTurn ==
    /\ pc = "content"
    /\ call.i < Len(call.loose_mismatch)
    /\ IF At(call.loose_mismatch, call.i).loc - At(call.loose_mismatch, call.i - 1).loc > 1
       THEN IF epsi_panics(Line(doc_x, 0), Line(doc_x, 1), call.loose_mismatch, q,
                           call.i, call.j)
            THEN /\ pc' = "panicked"
                 /\ UNCHANGED <<call, ret>>
            ELSE /\ ret' = Evaluation(call.i, call.j)
                 /\ IF ret'.epsilon > tau
                    THEN /\ pc' = "rejected"
                         /\ call' = call
                    ELSE /\ pc' = pc
                         /\ call' = [call EXCEPT !.j = call.i, !.i = @ + 1]
       ELSE /\ call' = [call EXCEPT !.i = @ + 1]
            /\ UNCHANGED <<pc, ret>>
    /\ UNCHANGED <<doc_x, doc_y, self_join, q, tau, inverted_index, chan, sent,
                   pending, output_chan, output_vec, written, prev>>

\* The evaluation after the loop, and verify's test v <= tau.
ContentFilterLast ==
    /\ pc = "content"
    /\ call.i >= Len(call.loose_mismatch)
    /\ IF epsi_panics(Line(doc_x, 0), Line(doc_x, 1), call.loose_mismatch, q,
                      call.i, call.j)
       THEN /\ pc' = "panicked"
            /\ UNCHANGED ret
       ELSE /\ ret' = Evaluation(call.i, call.j)
            /\ pc' = IF ret'.epsilon <= tau THEN "exact" ELSE "rejected"
    /\ UNCHANGED <<doc_x, doc_y, self_join, q, tau, inverted_index, chan, sent,
                   pending, output_chan, output_vec, written, prev, call>>

\* edit_distance(line_content, candidate_content), pushed when <= tau.
ExactVerify ==
    /\ pc = "exact"
    /\ ret' = [fn |-> "edit_distance",
               result |-> ExactVerification(Line(doc_x, 0), Line(doc_x, 1), tau)]
    /\ pc' = "returned"
    /\ UNCHANGED <<doc_x, doc_y, self_join, q, tau, inverted_index, chan, sent,
                   pending, output_chan, output_vec, written, prev, call>>

NextTail ==
    \/ SumRightErrors
    \/ ContentFilterTurn
    \/ ContentFilterLast
    \/ ExactVerify

SpecTail == InitTail /\ [][NextTail]_vars

\* The steps end as verify_filters ends on the same mismatches.
TailStepsMatchCall ==
    LET whole == verify_filters([loose_mismatch |-> call.loose_mismatch,
                                 epsilon |-> Len(call.loose_mismatch)],
                                Line(doc_x, 0), Line(doc_x, 1), q, tau)
    IN  /\ pc = "returned" => whole = ret.result
        /\ pc = "rejected" => whole.kind = "none"
        /\ pc = "panicked" => whole.kind = "panic"

\* C21: for a non-empty loose-mismatch list in ascending loc,
\* sum_right_errors returns an array whose loc never increases from left to
\* right and whose k-th rightError is k, and hands the list back in its
\* ascending order; for the empty list it builds no array and verify goes
\* on with the exact verification.
C21_SuffixSumMonotone ==
    (ret.fn = "sum_right_errors") =>
        IF ret.arg = <<>>
        THEN ret.kind = "none" /\ ret.suffix_sum = <<>> /\ pc = "exact"
        ELSE /\ ret.kind = "some"
             /\ \A k \in 1..Len(ret.suffix_sum) : ret.suffix_sum[k][2] = k
             /\ \A k \in 1..(Len(ret.suffix_sum) - 1) :
                    ret.suffix_sum[k][1] >= ret.suffix_sum[k + 1][1]
             /\ call.loose_mismatch = ret.arg

\* sum_right_errors has returned an array of several entries.
C21_Witness ==
    ret.fn = "sum_right_errors" /\ Len(ret.suffix_sum) >= 3

\* The entries of the suffix sums an evaluation may choose from.
Qualifying(bound) ==
    {k \in 1..Len(call.suffix_sum) : call.suffix_sum[k][1] >= bound}

\* C23: the rightError term content_filter adds to floor(L1 / 2) is 0 or 1:
\* the array is in descending loc, the lookup takes the first entry in
\* array order with loc >= mismatch[i-1].loc + q, so it takes the entry of
\* the right-most loose mismatch, of rightError 1, when any entry
\* qualifies, and 0 when none does; never the count of the smallest
\* qualifying loc.
C23_RightErrorZeroOrOne ==
    (ret.fn = "epsi") =>
        /\ ret.right_error \in {0, 1}
        /\ ret.right_error = (IF Qualifying(ret.bound) = {} THEN 0 ELSE 1)
        /\ ret.right_error = 1 =>
              call.suffix_sum[1][1]
                  = call.loose_mismatch[Len(call.loose_mismatch)].loc
        /\ ret.epsilon = (ret.l1 \div 2) + ret.right_error

\* An evaluation for which several entries qualify: the entry of the
\* smallest qualifying loc holds a count above 1.
C23_Witness ==
    /\ ret.fn = "epsi"
    /\ ret.right_error = 1
    /\ Cardinality(Qualifying(ret.bound)) >= 2

\* ------------------------------------ matching.rs: the driver's schedule
\* The driver is one thread that runs to its end: once for_each has
\* returned it drops the sender, and it keeps receiving until recv fails.
NextCollect ==
    \/ GenerateInvertedIndex
    \/ \E x_id \in pending : RunWorker(x_id)
    \/ DropOutputSender
    \/ Receive
    \/ SortOutput

SpecCollect ==
    /\ InitSelf("index")
    /\ [][NextCollect]_vars
    /\ WF_vars(DropOutputSender)
    /\ WF_vars(Receive)
    /\ WF_vars(SortOutput)

\* Every entry that was sent and not yet sorted: those received, then
\* those still on the channel.
Collected == output_vec \o Concat(output_chan)

\* The entries of line x_id among those collected, in their order.
EntriesOf(x_id) == LET tagged(e) == e[1] = x_id IN SelectSeq(Collected, tagged)

\* The vector of line x_id is among the collected entries once, as the
\* worker built it, when the worker has run, and not at all before.
SentOnce(x_id) ==
    IF x_id \in pending
    THEN EntriesOf(x_id) = <<>>
    ELSE \E r \in Worker(x_id, doc_x, doc_y, inverted_index, self_join, q, tau) :
            r.kind = "ok" /\ r.verified = EntriesOf(x_id)

\* Nothing is lost or repeated up to the sort: while the workers run, one
\* vector is on the channel per line taken; every line's entries are there
\* once; when the receive loop ends, all of them are in output_vec.
Conserved ==
    (pc \in {"workers", "recv"}) =>
        /\ \A x_id \in LineIds(doc_x) : SentOnce(x_id)
        /\ \A k \in 1..Len(Collected) : Collected[k][1] \in LineIds(doc_x)
        /\ pc = "workers" =>
              /\ output_vec = <<>>
              /\ Len(output_chan) = Cardinality(LineIds(doc_x) \ pending)
        /\ pc = "recv" => pending = {}

\* C22: result collection loses and duplicates nothing under every
\* interleaving of the workers: each line's verified vector is sent once,
\* the receive loop ends once all workers have finished, and output_vec
\* then holds exactly the entries of all the vectors, before the sort.
C22_CollectionExact ==
    /\ []Conserved
    /\ (pc = "workers" /\ pending = {}) ~> (pc = "write")

\* The receive loop has ended with entries of two lines collected.
C22_Witness ==
    /\ pc = "recv"
    /\ output_chan = <<>>
    /\ \E k, l \in 1..Len(output_vec) : output_vec[k][1] /= output_vec[l][1]

====
